---- MODULE Spec2Model ----
(***************************************************************************)
(* clusttraj, src/clusttraj/io.py: the command-line configuration          *)
(* (configure_runtime, parse_args) and the medoid alignment output         *)
(* (save_clusters_config).                                                 *)
(*                                                                         *)
(* Numbers.  Coordinates are exact: integers in units of 1 / Scale, with   *)
(* NaN kept apart (the mean of no rows).  The floats of the command line   *)
(* are fractions <<n, d>>, <<0, 0>> being NaN.                             *)
(* Geometry.  Coordinates are points of the plane <<x, y>>; the rotations  *)
(* the external rmsd package can return are the four lattice rotations     *)
(* (multiples of 90 degrees), and rmsd.kabsch is the one of least squared  *)
(* deviation, as its contract says.                                        *)
(* Optional values.  Python's None is the empty sequence, a present value  *)
(* x is <<x>>.                                                             *)
(***************************************************************************)
EXTENDS Integers, Sequences, FiniteSets, TLC

VARIABLES
    raw,        \* the command line: what each option was given as
    has_qml,    \* io.py:18-21, whether qmllib can be imported
    files,      \* the paths that exist on disk
    traj,       \* the trajectory file: a sequence of frames
    clusters,   \* the cluster label of every frame (1-based ids)
    distmat,    \* the condensed distance matrix
    pc,         \* where the run is
    err,        \* the exception that ended the run, "" when none
    opts,       \* the ClustOptions configure_runtime returned, None before
    cnum,       \* save_clusters_config: the cluster being written
    medoid,     \* save_clusters_config: frame index of the cluster's medoid
    med,        \* save_clusters_config: tnatoms, natoms, Q, Qa, qcenter of the medoid
    idx,        \* save_clusters_config: the next frame of the second read loop
    outfile,    \* the open pybel.Outputfile: None or <<path>>
    out,        \* what was written: path -> sequence of records
    last,       \* the last member aligned: its frame, the permutations reorder returned
    summary     \* what str(ClustOptions) returned: None or <<lines>>

vars == <<raw, has_qml, files, traj, clusters, distmat, pc, err, opts,
          cnum, medoid, med, idx, outfile, out, last, summary>>

----------------------------------------------------------------------------
(* Sequences and optional values *)

None == << >>

Some(x) == <<x>>

IsNone(o) == Len(o) = 0

Get(o) == o[1]

Range(s) == {s[i] : i \in 1..Len(s)}

RECURSIVE SumSeq(_)
SumSeq(s) == IF Len(s) = 0 THEN 0 ELSE s[1] + SumSeq(Tail(s))

\* s[:n] of Python: the first n elements, all of them when n >= len(s)
Take(s, n) == SubSeq(s, 1, IF n < Len(s) THEN n ELSE Len(s))

\* s[n:] of Python
Drop(s, n) == SubSeq(s, (IF n < Len(s) THEN n ELSE Len(s)) + 1, Len(s))

\* the increasing sequence of the elements of a finite set of integers
RECURSIVE SortedSeq(_)
SortedSeq(S) ==
    IF S = {} THEN << >>
    ELSE LET m == CHOOSE x \in S : \A y \in S : x <= y
         IN <<m>> \o SortedSeq(S \ {m})

\* s[ix] of numpy for an index sequence ix (0-based indices)
Pick(s, ix) == [k \in 1..Len(ix) |-> s[ix[k] + 1]]

Perms(n) == {p \in [1..n -> 1..n] : \A i, j \in 1..n : p[i] = p[j] => i = j}

----------------------------------------------------------------------------
(* Python floats *)

\* A float of the command line (-ws, -rmsd) is a fraction <<n, d>> with
\* d > 0; <<0, 0>> is NaN, which float("nan") gives.
NaN == <<0, 0>>

IsNaN(a) == a[2] = 0

R(n) == <<n, 1>>

\* a < b of Python floats: FALSE when either is NaN
RLess(a, b) == ~IsNaN(a) /\ ~IsNaN(b) /\ a[1] * b[2] < b[1] * a[2]

\* bool(x) of a Python float: only 0.0 is falsy, NaN is truthy
RTruthy(a) == IsNaN(a) \/ a[1] # 0

----------------------------------------------------------------------------
(* Points, arrays of points, and the rmsd package's kernel *)

\* A coordinate is an integer number of units of 1 / Scale, so that every
\* mean the code takes of the lattice coordinates explored is exact: a mean
\* over at most three atoms, then a mean weighted by halves over at most
\* 2 * 1 atoms.  A point is <<x, y>>; the point of two NaN is << >>.
Scale == 2 * 6 * 6 * 6

NaNPoint == << >>

PNaN(p) == Len(p) = 0

PSub(p, q) == IF PNaN(p) \/ PNaN(q) THEN NaNPoint ELSE <<p[1] - q[1], p[2] - q[2]>>

PAdd(p, q) == IF PNaN(p) \/ PNaN(q) THEN NaNPoint ELSE <<p[1] + q[1], p[2] + q[2]>>

AnyNaN(X) == \E i \in 1..Len(X) : PNaN(X[i])

\* X - c of numpy, broadcast over the rows
Shift(X, c) == [i \in 1..Len(X) |-> PSub(X[i], c)]

\* X + c of numpy, broadcast over the rows
Unshift(X, c) == [i \in 1..Len(X) |-> PAdd(X[i], c)]

\* sum_i W[i] * X[i] / sum_i W[i], NaN when the weights sum to 0
WeightedCentroid(X, W) ==
    LET n == Len(X)
        tot == SumSeq(W)
    IN IF tot = 0 \/ AnyNaN(X) THEN NaNPoint
       ELSE <<SumSeq([i \in 1..n |-> W[i] * X[i][1]]) \div tot,
              SumSeq([i \in 1..n |-> W[i] * X[i][2]]) \div tot>>

Ones(n) == [i \in 1..n |-> 1]

\* rmsd.centroid: X.mean(axis=0); the mean of no rows is NaN
centroid(X) == WeightedCentroid(X, Ones(Len(X)))

Rotations == 0..3

\* the point p turned by k quarter turns
Rot(k, p) ==
    CASE k = 0 -> p
      [] k = 1 -> <<-p[2], p[1]>>
      [] k = 2 -> <<-p[1], -p[2]>>
      [] OTHER -> <<p[2], -p[1]>>

\* np.dot(X, U)
Rotate(X, k) == [i \in 1..Len(X) |-> IF PNaN(X[i]) THEN NaNPoint ELSE Rot(k, X[i])]

\* the weighted squared deviation of X turned by k from Y
Deviation(X, Y, W, k) ==
    SumSeq([i \in 1..Len(X) |->
               W[i] * ( (Rot(k, X[i])[1] - Y[i][1]) * (Rot(k, X[i])[1] - Y[i][1])
                      + (Rot(k, X[i])[2] - Y[i][2]) * (Rot(k, X[i])[2] - Y[i][2]) )])

\* the rotation of least deviation; of several, the smallest turn
BestRotation(X, Y, W) ==
    CHOOSE k \in Rotations :
        \A j \in Rotations :
            /\ Deviation(X, Y, W, k) <= Deviation(X, Y, W, j)
            /\ (j < k => Deviation(X, Y, W, k) < Deviation(X, Y, W, j))

\* rmsd.kabsch(P, Q): the rotation U with P.U closest to Q
kabsch(P, Q) == BestRotation(P, Q, Ones(Len(P)))

\* rmsd.kabsch_weighted(Q, Pr, W): the rotation R and translation T with
\* R.Pr + T closest to Q under the weights W
kabsch_weighted(Q, Pr, W) ==
    LET cq == WeightedCentroid(Q, W)
        cp == WeightedCentroid(Pr, W)
        k  == BestRotation(Shift(Pr, cp), Shift(Q, cq), W)
    IN [R |-> k, T |-> PSub(cq, Rot(k, cp))]

----------------------------------------------------------------------------
(* The command line and configure_runtime *)

\* The paths of a run.  A path is <<name, n>>; n numbers the per-cluster files.
TrajPath == <<"traj.xyz", 0>>

InputPath == <<"in.npy", 0>>

DefaultDistmat == <<"distmat.npy", 0>>

DefaultClusters == <<"clusters.dat", 0>>

LogPath == <<"clusttraj.log", 0>>

SummaryPath == <<"clusters.out", 0>>

\* outbasename + "_" + str(cnum) + "." + outfmt, with outbasename "clusters_confs"
ConfPath(c) == <<"clusters_confs", c>>

ReorderAlgNames == {"inertia-hungarian", "hungarian", "brute", "distance", "qml"}

Methods == {"single", "complete", "average", "weighted", "centroid", "median", "ward"}

\* check_positive: int(value) <= 0 raises ArgumentTypeError
check_positive(v) == v > 0

\* the criterion group without required=True: only -ss with -rmsd is refused
CriterionErrorWhenBoth(a) == a.silhouette_score /\ ~IsNone(a.min_rmsd)

\* lines 364-377: -ss and -rmsd are a mutually exclusive group that is required
CriterionError(a) ==
    \/ (a.silhouette_score /\ ~IsNone(a.min_rmsd))
    \/ (~a.silhouette_score /\ IsNone(a.min_rmsd))

\* What argparse itself refuses (parser.error, exit status 2): a failed type
\* conversion, a mutually exclusive pair, a missing required group.
ArgparseError(a, fs) ==
    \/ a.trajectory_file \notin fs
    \/ (~IsNone(a.natoms_solute) /\ ~check_positive(Get(a.natoms_solute)))
    \/ (\E i \in 1..Len(a.reorder_exclusions) : ~check_positive(a.reorder_exclusions[i]))
    \/ CriterionError(a)
    \/ (~IsNone(a.input) /\ Get(a.input) \notin fs)
    \/ (~IsNone(a.input) /\ a.od_given)

\* parser.parse_args: the Namespace, defaults filled in
Namespace(a) ==
    [a EXCEPT !.reorder_alg = IF IsNone(a.reorder_alg) THEN "hungarian"
                              ELSE Get(a.reorder_alg)]

InvalidMethod(args) == args.method \notin Methods

InvalidReorderAlg(args) == args.reorder_alg \notin ReorderAlgNames

\* the check of lines 432-435 made only when reordering is asked for
QmlUnavailableWhenReordering(args, qml) ==
    args.reorder /\ args.reorder_alg = "qml" /\ ~qml

QmlUnavailable(args, qml) == args.reorder_alg = "qml" /\ ~qml

\* the check of lines 443-446 made only when reordering is asked for
ExclusionsWithNoHydrogenWhenReordering(args) ==
    args.reorder /\ Len(args.reorder_exclusions) > 0 /\ args.no_hydrogen

\* a list from nargs="+" is truthy when given: it is never empty
ExclusionsWithNoHydrogen(args) ==
    Len(args.reorder_exclusions) > 0 /\ args.no_hydrogen

SolventOnlyWithoutSolute(args) ==
    args.reorder_solvent_only /\ IsNone(args.natoms_solute)

\* "if args.weight_solute": None and 0.0 are falsy
WeightGiven(args) ==
    ~IsNone(args.weight_solute) /\ RTruthy(Get(args.weight_solute))

WeightWithoutSolute(args) ==
    WeightGiven(args) /\ IsNone(args.natoms_solute)

WeightOutOfRange(args) ==
    /\ WeightGiven(args)
    /\ (RLess(Get(args.weight_solute), R(0)) \/ RLess(R(1), Get(args.weight_solute)))

\* configure_runtime's own checks, each a parser.error
ValidationError(args, qml) ==
    \/ InvalidMethod(args)
    \/ InvalidReorderAlg(args)
    \/ QmlUnavailable(args, qml)
    \/ ExclusionsWithNoHydrogen(args)
    \/ SolventOnlyWithoutSolute(args)
    \/ WeightWithoutSolute(args)
    \/ WeightOutOfRange(args)

\* parse_args: the reorder function picked for the algorithm's name
ReorderFunction(args) ==
    IF ~args.reorder THEN None
    ELSE CASE args.reorder_alg = "hungarian" -> Some("reorder_hungarian")
           [] args.reorder_alg = "distance"  -> Some("reorder_distance")
           [] args.reorder_alg = "brute"     -> Some("reorder_brute")
           [] args.reorder_alg = "qml"       -> Some("reorder_similarity")
           [] OTHER                          -> None

\* parse_args: the two existence checks that raise FileExistsError
DistmatExists(args, fs) ==
    IsNone(args.input) /\ DefaultDistmat \in fs /\ ~args.force

ClustersExists(args, fs) == DefaultClusters \in fs /\ ~args.force

OutputExists(args, fs) == DistmatExists(args, fs) \/ ClustersExists(args, fs)

\* parse_args: the ClustOptions built from the Namespace
parse_args(args) ==
    [ solute_natoms        |-> args.natoms_solute,
      weight_solute        |-> args.weight_solute,
      reorder_excl         |-> [i \in 1..Len(args.reorder_exclusions) |->
                                    args.reorder_exclusions[i] - 1],
      exclusions           |-> Len(args.reorder_exclusions) > 0,
      reorder_alg_name     |-> args.reorder_alg,
      reorder_alg          |-> ReorderFunction(args),
      reorder_solvent_only |-> args.reorder_solvent_only,
      reorder              |-> args.reorder,
      input_distmat        |-> ~IsNone(args.input),
      distmat_name         |-> IF IsNone(args.input) THEN DefaultDistmat
                               ELSE Get(args.input),
      out_clust_name       |-> DefaultClusters,
      summary_name         |-> SummaryPath,
      save_confs           |-> ~IsNone(args.clusters_configurations),
      out_conf_name        |-> IF IsNone(args.clusters_configurations) THEN None
                               ELSE Some("clusters_confs"),
      plot                 |-> args.plot,
      out_conf_fmt         |-> args.clusters_configurations,
      trajfile             |-> args.trajectory_file,
      min_rmsd             |-> args.min_rmsd,
      method               |-> args.method,
      no_hydrogen          |-> args.no_hydrogen,
      overwrite            |-> args.force,
      final_kabsch         |-> args.final_kabsch,
      silhouette_score     |-> args.silhouette_score,
      optimal_cut          |-> None ]

\* configure_runtime(args_in): SystemExit from parser.error, FileExistsError
\* from parse_args, or the ClustOptions
ConfigureOutcome(a, qml, fs) ==
    IF ArgparseError(a, fs) THEN "SystemExit"
    ELSE IF ValidationError(Namespace(a), qml) THEN "SystemExit"
    ELSE IF OutputExists(Namespace(a), fs) THEN "FileExistsError"
    ELSE ""

ConfigureRuntime ==
    /\ pc = "start"
    /\ LET outcome == ConfigureOutcome(raw, has_qml, files)
       IN /\ err' = outcome
          /\ pc' = IF outcome = "" THEN "main" ELSE "exit"
          /\ opts' = IF outcome = "" THEN Some(parse_args(Namespace(raw))) ELSE None
          \* Logger.setup opens the log file once argparse has accepted the line
          /\ files' = IF ArgparseError(raw, files) THEN files ELSE files \cup {LogPath}
    /\ UNCHANGED <<raw, has_qml, traj, clusters, distmat, cnum, medoid, med,
                   idx, outfile, out, last, summary>>

----------------------------------------------------------------------------
(* ClustOptions: update and __str__ *)

\* lines 80-91: update with {"optimal_cut": v}; the key is a field of the class
update(o, v) == [o EXCEPT !.optimal_cut = v]

\* the first isinstance test of line 105 alone: arrays, and not lists
IsArrayOnly(c) == c.kind = "ndarray"

\* line 105: isinstance(self.optimal_cut, (np.ndarray, list))
IsArrayOrList(c) == c.kind \in {"ndarray", "list"}

\* line 107: isinstance(self.optimal_cut, (float, np.float32, np.float64))
IsFloat(c) == c.kind = "float"

\* lines 104-110: the exception the choice of scut raises, "" when none;
\* None is of no kind tested, and [0] of an array or list with no element
\* is an IndexError
ScutError(o) ==
    IF IsNone(o.optimal_cut) THEN "ValueError"
    ELSE IF IsArrayOrList(Get(o.optimal_cut))
         THEN IF Len(Get(o.optimal_cut).val) = 0 THEN "IndexError" ELSE ""
    ELSE IF IsFloat(Get(o.optimal_cut)) THEN ""
    ELSE "ValueError"

\* lines 105-108: scut
Scut(o) ==
    IF IsArrayOrList(Get(o.optimal_cut)) THEN Get(o.optimal_cut).val[1]
    ELSE Get(o.optimal_cut).val

\* lines 103-113: the lines on the criterion
CriterionLines(o) ==
    IF o.silhouette_score
    THEN << <<"Using silhouette score">>,
            <<"RMSD criterion found by silhouette", Scut(o)>> >>
    ELSE << <<"RMSD criterion", o.min_rmsd>> >>

\* lines 117-139: the lines on the reordering
ReorderLines(o) ==
    IF ~o.reorder THEN << >>
    ELSE (IF ~IsNone(o.solute_natoms) /\ Get(o.solute_natoms) # 0
          THEN << <<"Using solute-solvent adjustment/reordering">> >>
               \o (IF o.final_kabsch
                   THEN << <<"Using final Kabsch rotation before computing RMSD">> >>
                   ELSE << >>)
               \o << <<"Number of solute atoms", o.solute_natoms>> >>
               \o (IF ~IsNone(o.weight_solute) /\ RTruthy(Get(o.weight_solute))
                   THEN << <<"Weight of the solute atoms", o.weight_solute>> >>
                   ELSE << <<"Unweighted RMSD according to solute/solvent.">> >>)
               \o (IF o.reorder_solvent_only
                   THEN << <<"Reordering only solvent atoms">> >>
                   ELSE << >>)
          ELSE << <<"Reordering all atom at the same time">> >>)
         \o << <<"Reordering algorithm", o.reorder_alg_name>> >>
         \o (IF o.exclusions
             THEN << <<"Atoms that weren't considered in the reordering", o.reorder_excl>> >>
             ELSE << >>)

\* lines 141-156: the lines on the files
FileLines(o) ==
    << <<IF o.input_distmat THEN "RMSD matrix was read from"
         ELSE "RMSD matrix was written in", o.distmat_name>>,
       <<"The classification of each configuration was written in", o.out_clust_name>> >>
    \o (IF o.save_confs
        THEN << <<"The superposed structures for each cluster were saved at", o.out_conf_name>> >>
        ELSE << >>)
    \o (IF o.plot
        THEN << <<"Plotting the dendrogram to">>,
                <<"Plotting the multidimensional scaling to 2D to">>,
                <<"Plotting the evolution of the classification with the trajectory to">> >>
        ELSE << >>)

\* lines 93-158: ClustOptions.__str__, the exception it raises ("" when none)
\* and the lines of the string it returns
ClustOptions_str(o) ==
    IF o.silhouette_score /\ ScutError(o) # ""
    THEN [err |-> ScutError(o), lines |-> << >>]
    ELSE [err |-> "",
          lines |-> << <<"header">>, <<"Full command">>,
                       <<"Clusterized from trajectory file", o.trajfile>>,
                       <<"Method", o.method>> >>
                    \o CriterionLines(o)
                    \o << <<"Ignoring hydrogens?", o.no_hydrogen>> >>
                    \o ReorderLines(o)
                    \o FileLines(o)]

----------------------------------------------------------------------------
(* main: classification, the outputs, the call of save_clusters_config *)

MaxCutLen == 2      \* an optimal_cut array or list has up to MaxCutLen elements

\* the sequences over S of length up to n
SeqUpTo(S, n) == UNION {[1..k -> S] : k \in 0..n}

\* what the silhouette search may leave in optimal_cut: nothing, or a value
\* of one of the kinds __str__ tells apart
Cuts ==
    {None}
    \cup {Some([kind |-> "float", val |-> R(2)]), Some([kind |-> "int", val |-> R(2)])}
    \cup {Some([kind |-> k, val |-> v]) :
             k \in {"ndarray", "list"}, v \in SeqUpTo({R(2), R(3)}, MaxCutLen)}


SaveArgs(o) ==
    [ noh                  |-> o.no_hydrogen,
      reorder              |-> o.reorder_alg,
      reorder_solvent_only |-> o.reorder_solvent_only,
      nsatoms              |-> o.solute_natoms,
      weight_solute        |-> o.weight_solute,
      reorderexcl          |-> o.reorder_excl,
      final_kabsch         |-> o.final_kabsch,
      overwrite            |-> o.overwrite ]

\* main: the distance matrix, the cluster file and the summary are written
\* (the matrix only when it was not read), then the configurations are saved
\* when -cc asks for them
Main ==
    /\ pc = "main"
    /\ files' = files \cup {Get(opts).distmat_name, Get(opts).out_clust_name,
                            Get(opts).summary_name}
    /\ pc' = IF Get(opts).save_confs THEN "open" ELSE "done"
    /\ cnum' = 1
    /\ \E cut \in (IF Get(opts).silhouette_score THEN Cuts ELSE {None}) :
          opts' = Some(update(Get(opts), cut))
    /\ UNCHANGED <<raw, has_qml, traj, clusters, distmat, err, medoid,
                   med, idx, outfile, out, last, summary>>

----------------------------------------------------------------------------
(* save_clusters_config: the medoid of a cluster *)

\* "if nsatoms", "if reorder": None is falsy, and so is the integer 0
IntTruthy(o) == ~IsNone(o) /\ Get(o) # 0

\* range(1, max(clusters)): the last cluster id left out
MaxLabelExclusive(cl) ==
    (CHOOSE m \in Range(cl) : \A x \in Range(cl) : x <= m) - 1

MaxLabel(cl) == CHOOSE m \in Range(cl) : \A x \in Range(cl) : x <= m

\* the number of rows of squareform(dm)
SquareSize(dm) == CHOOSE n \in 1..(Len(dm) + 1) : n * (n - 1) = 2 * Len(dm)

\* squareform(dm)[i, j], 0-based
Square(dm, i, j) ==
    LET n == SquareSize(dm)
        a == IF i < j THEN i ELSE j
        b == IF i < j THEN j ELSE i
    IN IF i = j THEN 0
       ELSE dm[n * a - ((a * (a + 1)) \div 2) + (b - a - 1) + 1]

\* sublist: the frames labelled c, in trajectory order
Sublist(cl, c) == SortedSeq({i \in 0..(Len(cl) - 1) : cl[i + 1] = c})

\* sum(sqdistmat[:, mask][mask, :]): the column sums of the cluster's submatrix
ColumnSums(dm, cl, c) ==
    LET sub == Sublist(cl, c)
    IN [k \in 1..Len(sub) |->
            SumSeq([r \in 1..Len(sub) |-> Square(dm, sub[r], sub[k])])]

\* the last index of the least element: what np.argmin is not
argmin_last(v) ==
    (CHOOSE k \in 1..Len(v) :
        /\ \A j \in 1..Len(v) : v[k] <= v[j]
        /\ \A j \in (k + 1)..Len(v) : v[j] > v[k]) - 1

\* np.argmin: the first index of the least element (0-based)
argmin(v) ==
    (CHOOSE k \in 1..Len(v) :
        /\ \A j \in 1..Len(v) : v[k] <= v[j]
        /\ \A j \in 1..(k - 1) : v[j] > v[k]) - 1

Medoid(dm, cl, c) == Sublist(cl, c)[argmin(ColumnSums(dm, cl, c)) + 1]

----------------------------------------------------------------------------
(* save_clusters_config: selection and centering *)

Hydrogen == 1

\* np.where(atoms != 1): the 0-based indices of the atoms that are not hydrogen
NotHydrogens(atoms) == SortedSeq({i \in 0..(Len(atoms) - 1) : atoms[i + 1] # Hydrogen})

AllAtoms(atoms) == [i \in 1..Len(atoms) |-> i - 1]

Selection(atoms, noh) == IF noh THEN NotHydrogens(atoms) ELSE AllAtoms(atoms)

\* natoms: nsatoms, or with noh the number of atoms of q_atoms[:nsatoms]
\* that are not hydrogen (q_atoms[:None] is the whole array)
SoluteCount(atoms, s) ==
    IF s.noh
    THEN Some(Len(NotHydrogens(IF IsNone(s.nsatoms) THEN atoms
                               ELSE Take(atoms, Get(s.nsatoms)))))
    ELSE s.nsatoms

\* the centroid the selected atoms X are centered at
Center(X, natoms, s) ==
    IF IntTruthy(s.nsatoms) THEN centroid(Take(X, Get(natoms))) ELSE centroid(X)

\* lines 611-641: what the first read loop keeps of the medoid frame
MedoidInfo(f, s) ==
    LET sel     == Selection(f.atoms, s.noh)
        natoms  == SoluteCount(f.atoms, s)
        Q0      == Pick(f.coords, sel)
        qcenter == Center(Q0, natoms, s)
    IN [ tnatoms |-> Len(f.atoms),
         natoms  |-> natoms,
         Q       |-> Shift(Q0, qcenter),
         Qa      |-> Pick(f.atoms, sel),
         qcenter |-> qcenter ]

\* lines 643-657: the medoid's record, q_all - qcenter with the frame's atoms
MedoidRecord(f, i, m) ==
    [ idx    |-> i,
      natoms |-> m.tnatoms,
      atoms  |-> f.atoms,
      coords |-> Shift(f.coords, m.qcenter),
      title  |-> f.title ]

----------------------------------------------------------------------------
(* save_clusters_config: aligning a member onto the medoid *)

\* np.delete(np.arange(n), ex): the indices below n that ex does not name
Delete(n, ex) == SortedSeq((0..(n - 1)) \ Range(ex))

\* np.where(np.isin(np.arange(n), ex)): the indices below n that ex names
WhereIns(n, ex) == SortedSeq((0..(n - 1)) \cap Range(ex))

\* np.insert(arr, [x - whereins.index(x) for x in whereins], vals, axis=0):
\* vals[k] lands at the k-th index of whereins, in the order vals comes in,
\* and arr fills the other places in its own order
Insert(arr, whereins, vals) ==
    [j \in 1..(Len(arr) + Len(whereins)) |->
        IF \E k \in 1..Len(whereins) : whereins[k] = j - 1
        THEN vals[CHOOSE k \in 1..Len(whereins) : whereins[k] = j - 1]
        ELSE arr[j - Cardinality({k \in 1..Len(whereins) : whereins[k] < j - 1})]]

\* the exception np.insert and the fancy indexing before it raise, "" when none
SpliceError(n, ex, vals) ==
    IF \E k \in 1..Len(ex) : ex[k] >= n THEN "IndexError"
    ELSE IF Len(vals) # Len(WhereIns(n, ex)) THEN "ValueError"
    ELSE ""

\* what a reorder strategy may return for reference types Qa and candidate
\* types Pa: a permutation prr with Pa[prr[i]] = Qa[i]
ReorderResults(Qa, Pa) ==
    {p \in Perms(Len(Pa)) : \A i \in 1..Len(Pa) : Pa[p[i]] = Qa[i]}

Permute(X, prr) == [i \in 1..Len(prr) |-> X[prr[i]]]

Failed(e) == [err |-> e, P |-> << >>, Pa |-> << >>, pall |-> << >>]

\* a rotation from rmsd.kabsch applied to P and p_all; the SVD fails on NaN
Superpose(st, X, Y) ==
    IF Len(X) # Len(Y) THEN Failed("ValueError")
    ELSE IF AnyNaN(X) \/ AnyNaN(Y) THEN Failed("LinAlgError")
    ELSE LET U == kabsch(X, Y)
         IN [st EXCEPT !.P = Rotate(st.P, U), !.pall = Rotate(st.pall, U)]

\* lines 668-706 and 753-757: selection, centering, first rotation
AlignStart(f, m, s) ==
    LET sel     == Selection(f.atoms, s.noh)
        P0      == Pick(f.coords, sel)
        pcenter == Center(P0, m.natoms, s)
        P1      == Shift(P0, pcenter)
        st      == [err |-> "", Pa |-> Pick(f.atoms, sel), pall |-> Shift(f.coords, pcenter),
                    P |-> IF IntTruthy(s.nsatoms)
                          THEN Shift(P1, centroid(Take(m.Q, Get(m.natoms))))
                          ELSE P1]
    IN IF IntTruthy(s.nsatoms)
       THEN Superpose(st, Take(st.P, Get(m.natoms)), Take(m.Q, Get(m.natoms)))
       ELSE Superpose(st, st.P, m.Q)

SoluteStep(s) == IntTruthy(s.nsatoms) /\ ~IsNone(s.reorder) /\ ~s.reorder_solvent_only

\* reorderexcl[soluexcl]: the exclusions below natoms, in the order given
SoluteExcl(m, s) == SelectSeq(s.reorderexcl, LAMBDA e : e < Get(m.natoms))

SoluteView(m, s) == Delete(Get(m.natoms), SoluteExcl(m, s))

\* the permutations the solute reorder step may get from the strategy
SolutePerms(a, m, s) ==
    IF a.err # "" \/ ~SoluteStep(s) \/ Get(m.natoms) > Len(a.P) THEN {<< >>}
    ELSE LET r == ReorderResults(Pick(m.Qa, SoluteView(m, s)), Pick(a.Pa, SoluteView(m, s)))
         IN IF r = {} THEN {<< >>} ELSE r

\* lines 709-744: reorder the solute atoms that are not excluded and splice
\* the excluded ones back
SoluteSpliced(a, m, s, prr) ==
    IF a.err # "" \/ ~SoluteStep(s) THEN a
    ELSE LET natoms == Get(m.natoms)
             excl   == SoluteExcl(m, s)
             view   == SoluteView(m, s)
             ins    == WhereIns(natoms, s.reorderexcl)
         IN IF natoms > Len(a.P) THEN Failed("IndexError")
            ELSE IF \/ AnyNaN(Pick(a.P, view)) \/ AnyNaN(Pick(m.Q, view))
                    \/ ReorderResults(Pick(m.Qa, view), Pick(a.Pa, view)) = {}
                 THEN Failed("ValueError")
            ELSE IF SpliceError(Len(a.P), excl, excl) # ""
                 THEN Failed(SpliceError(Len(a.P), excl, excl))
            ELSE LET Psolu  == Insert(Permute(Pick(a.P, view), prr), ins, Pick(a.P, excl))
                     Pasolu == Insert(Permute(Pick(a.Pa, view), prr), ins, Pick(a.Pa, excl))
                 IN [a EXCEPT !.P  = Psolu \o Drop(a.P, natoms),
                              !.Pa = Pasolu \o Drop(a.Pa, natoms)]

\* lines 709-751: the solute reorder step, then the rotation on the solute again
SoluteReorder(a, m, s, prr) ==
    LET b == SoluteSpliced(a, m, s, prr)
    IN IF a.err # "" \/ ~SoluteStep(s) \/ b.err # "" THEN b
       ELSE Superpose(b, Take(b.P, Get(m.natoms)), Take(m.Q, Get(m.natoms)))

\* lines 762-767: what the second reorder step leaves in place
Exclusions(m, s) ==
    IF IntTruthy(s.nsatoms)
    THEN SortedSeq((0..(Get(m.natoms) - 1)) \cup Range(s.reorderexcl))
    ELSE s.reorderexcl

SolventView(b, m, s) == Delete(Len(b.P), Exclusions(m, s))

ExclusionsInRange(b, m, s) ==
    \A k \in 1..Len(Exclusions(m, s)) : Exclusions(m, s)[k] < Len(b.P)

\* the permutations the second reorder step may get from the strategy
SolventPerms(b, m, s) ==
    IF b.err # "" \/ IsNone(s.reorder) \/ ~ExclusionsInRange(b, m, s) THEN {<< >>}
    ELSE LET r == ReorderResults(Pick(m.Qa, SolventView(b, m, s)), Pick(b.Pa, SolventView(b, m, s)))
         IN IF r = {} THEN {<< >>} ELSE r

\* lines 759-788: Pr, the atoms outside the exclusions reordered and the
\* excluded ones spliced back
SolventReorder(b, m, s, prr) ==
    IF b.err # "" THEN << >>
    ELSE IF IsNone(s.reorder) THEN b.P
    ELSE LET excl == Exclusions(m, s)
             view == SolventView(b, m, s)
         IN Insert(Permute(Pick(b.P, view), prr), WhereIns(Len(b.P), excl), Pick(b.P, excl))

SolventReorderError(b, m, s) ==
    IF b.err # "" THEN b.err
    ELSE IF IsNone(s.reorder) THEN ""
    ELSE IF ~ExclusionsInRange(b, m, s) THEN "IndexError"
    ELSE IF \/ AnyNaN(Pick(b.P, SolventView(b, m, s)))
            \/ AnyNaN(Pick(m.Q, SolventView(b, m, s)))
            \/ ReorderResults(Pick(m.Qa, SolventView(b, m, s)),
                              Pick(b.Pa, SolventView(b, m, s))) = {}
         THEN "ValueError"
    ELSE SpliceError(Len(b.P), Exclusions(m, s), Exclusions(m, s))

\* "if weight_solute": None and 0.0 are falsy
WeightTruthy(s) == ~IsNone(s.weight_solute) /\ RTruthy(Get(s.weight_solute))

WeightedFit(s) == WeightTruthy(s) /\ s.final_kabsch

UnweightedFit(s) == IntTruthy(s.nsatoms) /\ ~IsNone(s.reorder) /\ s.final_kabsch

\* the denominator the entries of W are written over
WeightDenominator(n, natoms, ws) == ws[2] * natoms * (n - natoms)

\* lines 792-794: W, weight_solute / natoms on the first natoms entries and
\* (1 - weight_solute) / (N - natoms) on the others; the entries are the
\* numerators over Abs(WeightDenominator(n, natoms, ws))
Weights(n, natoms, ws) ==
    LET sign == IF WeightDenominator(n, natoms, ws) < 0 THEN -1 ELSE 1
    IN [i \in 1..n |-> IF i <= natoms THEN sign * ws[1] * (n - natoms)
                       ELSE sign * (ws[2] - ws[1]) * natoms]

\* the exception building W raises, "" when none
WeightsError(n, natoms) ==
    IF IsNone(natoms) THEN "TypeError"
    ELSE IF Get(natoms) = 0 \/ n - Get(natoms) = 0 THEN "ZeroDivisionError"
    ELSE ""

\* lines 790-802: the final fit, applied to p_all only
FinalFit(b, Pr, m, s) ==
    IF WeightedFit(s)
    THEN IF WeightsError(Len(Pr), m.natoms) # ""
         THEN Failed(WeightsError(Len(Pr), m.natoms))
         ELSE LET W == Weights(Len(Pr), Get(m.natoms), Get(s.weight_solute))
              IN IF Len(Pr) # Len(m.Q) THEN Failed("ValueError")
                 ELSE IF \/ AnyNaN(Pr) \/ AnyNaN(m.Q)
                         \/ IsNaN(Get(s.weight_solute)) \/ SumSeq(W) = 0
                      THEN Failed("LinAlgError")
                 ELSE LET fit == kabsch_weighted(m.Q, Pr, W)
                      IN [b EXCEPT !.pall = Unshift(Rotate(b.pall, fit.R), fit.T)]
    ELSE IF UnweightedFit(s)
    THEN [err |-> Superpose(b, Pr, m.Q).err, P |-> b.P, Pa |-> b.Pa,
          pall |-> Superpose(b, Pr, m.Q).pall]
    ELSE b

\* lines 668-802 for one member f, with the permutations reorder returned
Align(f, m, s, prr1, prr2) ==
    LET a == AlignStart(f, m, s)
        b == SoluteReorder(a, m, s, prr1)
        e == SolventReorderError(b, m, s)
    IN IF e # "" THEN Failed(e)
       ELSE FinalFit(b, SolventReorder(b, m, s, prr2), m, s)

\* the member's record with the types and the number of the selected atoms
MemberRecordSelected(f, i, m, pall) ==
    [ idx    |-> i,
      natoms |-> Len(m.Qa),
      atoms  |-> m.Qa,
      coords |-> pall,
      title  |-> f.title ]

\* lines 804-818: the member's record, p_all with the frame's atoms
MemberRecord(f, i, m, pall) ==
    [ idx    |-> i,
      natoms |-> m.tnatoms,
      atoms  |-> f.atoms,
      coords |-> pall,
      title  |-> f.title ]

----------------------------------------------------------------------------
(* save_clusters_config: the steps of the loop over the clusters *)

Frame(i) == traj[i + 1]

NoMember == [idx |-> -1, prr1 |-> << >>, prr2 |-> << >>]

NoMedoid == [tnatoms |-> 0, natoms |-> None, Q |-> << >>, Qa |-> << >>,
             qcenter |-> <<0, 0>>]

\* lines 588-602: pybel.Outputfile refuses an existing path unless overwrite
\* is set; otherwise the file is created empty and the medoid is chosen
OpenOutput ==
    /\ pc = "open"
    /\ cnum <= MaxLabel(clusters)
    /\ LET s == SaveArgs(Get(opts))
           refused == ConfPath(cnum) \in files /\ ~s.overwrite
           empty == Len(Sublist(clusters, cnum)) = 0
       IN /\ err' = IF refused THEN "IOError" ELSE IF empty THEN "IndexError" ELSE ""
          /\ pc' = IF refused \/ empty THEN "exit" ELSE "medoid"
          /\ files' = IF refused THEN files ELSE files \cup {ConfPath(cnum)}
          /\ outfile' = IF refused THEN outfile ELSE Some(ConfPath(cnum))
          /\ out' = IF refused THEN out
                    ELSE [p \in DOMAIN out \cup {ConfPath(cnum)} |->
                             IF p = ConfPath(cnum) THEN << >> ELSE out[p]]
          /\ medoid' = IF refused \/ empty THEN medoid
                       ELSE Medoid(distmat, clusters, cnum)
    /\ UNCHANGED <<raw, has_qml, traj, clusters, distmat, opts, cnum, med, idx, last,
                   summary>>

\* lines 604-659: the first read loop writes the medoid
WriteMedoid ==
    /\ pc = "medoid"
    /\ LET s == SaveArgs(Get(opts))
           m == MedoidInfo(Frame(medoid), s)
       IN /\ med' = m
          /\ out' = [out EXCEPT ![Get(outfile)] =
                        Append(@, MedoidRecord(Frame(medoid), medoid, m))]
    /\ idx' = 0
    /\ pc' = "members"
    /\ UNCHANGED <<raw, has_qml, files, traj, clusters, distmat, err, opts, cnum,
                   medoid, outfile, last, summary>>

\* line 665 without its second test: the medoid is not passed over
PassedOverOtherClusters(cl, c, md, i) == cl[i + 1] # c

\* line 665: "if not mask[idx] or idx == medoid: continue"
PassedOver(cl, c, md, i) == cl[i + 1] # c \/ i = md

\* line 665: a frame of another cluster, or the medoid, is passed over
SkipFrame ==
    /\ pc = "members"
    /\ idx < Len(traj)
    /\ PassedOver(clusters, cnum, medoid, idx)
    /\ idx' = idx + 1
    /\ UNCHANGED <<raw, has_qml, files, traj, clusters, distmat, pc, err, opts,
                   cnum, medoid, med, outfile, out, last, summary>>

\* lines 661-818: a member is aligned onto the medoid and written
WriteMember ==
    /\ pc = "members"
    /\ idx < Len(traj)
    /\ ~PassedOver(clusters, cnum, medoid, idx)
    /\ LET s == SaveArgs(Get(opts))
           f == Frame(idx)
       IN \E prr1 \in SolutePerms(AlignStart(f, med, s), med, s) :
          \E prr2 \in SolventPerms(SoluteReorder(AlignStart(f, med, s), med, s, prr1), med, s) :
             LET r == Align(f, med, s, prr1, prr2)
             IN /\ err' = r.err
                /\ pc' = IF r.err = "" THEN "members" ELSE "exit"
                /\ out' = IF r.err = ""
                          THEN [out EXCEPT ![Get(outfile)] =
                                    Append(@, MemberRecord(f, idx, med, r.pall))]
                          ELSE out
                /\ last' = [idx |-> idx, prr1 |-> prr1, prr2 |-> prr2]
    /\ idx' = idx + 1
    /\ UNCHANGED <<raw, has_qml, files, traj, clusters, distmat, opts, cnum,
                   medoid, med, outfile, summary>>

\* lines 820-821: the file of the cluster is closed, the next cluster follows
CloseOutput ==
    /\ pc = "members"
    /\ idx = Len(traj)
    /\ outfile' = None
    /\ cnum' = cnum + 1
    /\ pc' = "open"
    /\ UNCHANGED <<raw, has_qml, files, traj, clusters, distmat, err, opts,
                   medoid, med, idx, out, last, summary>>

\* line 588: the loop over the clusters is over
Return ==
    /\ pc = "open"
    /\ cnum > MaxLabel(clusters)
    /\ pc' = "done"
    /\ UNCHANGED <<raw, has_qml, files, traj, clusters, distmat, err, opts,
                   cnum, medoid, med, idx, outfile, out, last, summary>>

\* str(clust_opt) once the run has written its outputs
Str ==
    /\ pc = "done"
    /\ LET r == ClustOptions_str(Get(opts))
       IN /\ err' = r.err
          /\ pc' = IF r.err = "" THEN "end" ELSE "exit"
          /\ summary' = IF r.err = "" THEN Some(r.lines) ELSE None
    /\ UNCHANGED <<raw, has_qml, files, traj, clusters, distmat, opts, cnum,
                   medoid, med, idx, outfile, out, last>>

Next ==
    \/ ConfigureRuntime
    \/ Main
    \/ OpenOutput
    \/ WriteMedoid
    \/ SkipFrame
    \/ WriteMember
    \/ CloseOutput
    \/ Return
    \/ Str

----------------------------------------------------------------------------
(* The runs explored *)

MaxSolute == 2      \* -ns is drawn from 0..MaxSolute
MaxCoord == 1       \* the coordinates of a medoid are drawn from 0..MaxCoord
NFrames == 3        \* the frames of the trajectories the medoid is chosen in
MaxDist == 1        \* the distances of the condensed matrix are drawn from 0..MaxDist
MaxConfFiles == 2   \* the per-cluster files that may exist before the run

\* an atomic number that is not hydrogen's
Carbon == Hydrogen + 5

MkFrame(atoms, pts, t) ==
    [ atoms  |-> atoms,
      coords |-> [i \in 1..Len(pts) |-> <<Scale * pts[i][1], Scale * pts[i][2]>>],
      title  |-> t ]

\* a command line that gives the trajectory, -rmsd and -cc xyz, and nothing else
BaseRaw ==
    [ trajectory_file         |-> TrajPath,
      force                   |-> FALSE,
      no_hydrogen             |-> FALSE,
      method                  |-> "average",
      clusters_configurations |-> Some("xyz"),
      reorder                 |-> FALSE,
      reorder_exclusions      |-> << >>,
      reorder_solvent_only    |-> FALSE,
      reorder_alg             |-> None,
      natoms_solute           |-> None,
      weight_solute           |-> None,
      final_kabsch            |-> FALSE,
      silhouette_score        |-> FALSE,
      min_rmsd                |-> Some(R(1)),
      input                   |-> None,
      od_given                |-> FALSE,
      plot                    |-> FALSE ]

Optional(S) == {None} \cup {Some(x) : x \in S}

\* the state before configure_runtime is called
Start ==
    /\ pc = "start"
    /\ err = ""
    /\ opts = None
    /\ cnum = 1
    /\ medoid = 0
    /\ med = NoMedoid
    /\ idx = 0
    /\ outfile = None
    /\ out = [p \in {} |-> << >>]
    /\ last = NoMember
    /\ summary = None

\* two frames of two carbons and a hydrogen, in one cluster
SmallTraj ==
    << MkFrame(<<Carbon, Carbon, Hydrogen>>, << <<0, 0>>, <<1, 0>>, <<0, 1>> >>, 0),
       MkFrame(<<Carbon, Carbon, Hydrogen>>, << <<1, 1>>, <<1, 0>>, <<0, 0>> >>, 1) >>

Half == <<1, 2>>

\* the reorder options of the command line, the trajectory fixed
InitCfg ==
    /\ Start
    /\ has_qml \in BOOLEAN
    /\ files = {TrajPath}
    /\ traj = SmallTraj
    /\ clusters = <<1, 1>>
    /\ distmat = <<1>>
    /\ \E re, noh, rs, fk \in BOOLEAN :
       \E alg \in Optional(ReorderAlgNames \cup {"kabsch"}) :
       \E eex \in {<< >>, <<1>>, <<3, 1>>} :
       \E ns \in Optional(0..MaxSolute) :
       \E ws \in Optional({NaN, <<-1, 2>>, R(0), Half, R(1), <<3, 2>>}) :
          raw = [BaseRaw EXCEPT !.reorder = re, !.no_hydrogen = noh,
                                !.reorder_solvent_only = rs, !.final_kabsch = fk,
                                !.reorder_alg = alg, !.reorder_exclusions = eex,
                                !.natoms_solute = ns, !.weight_solute = ws]

\* three frames of one atom, in the clusters a flat clustering can give
SingleAtomTraj(n) == [i \in 1..n |-> MkFrame(<<Carbon>>, << <<i, 0>> >>, i - 1)]

\* fcluster's labels: every id from 1 to the largest is used
Labelings(n) ==
    {cl \in [1..n -> 1..n] : \A c \in 1..n : (\E i \in 1..n : cl[i] >= c) =>
                                              (\E i \in 1..n : cl[i] = c)}

\* the output paths of the command line and the files already on disk
InitFiles ==
    /\ Start
    /\ has_qml = FALSE
    /\ traj = SingleAtomTraj(NFrames)
    /\ clusters = [i \in 1..NFrames |-> IF i <= MaxConfFiles THEN i ELSE MaxConfFiles]
    /\ distmat = [k \in 1..((NFrames * (NFrames - 1)) \div 2) |-> MaxDist]
    /\ \E fs \in SUBSET ({DefaultDistmat, DefaultClusters, InputPath}
                         \cup {ConfPath(c) : c \in 1..MaxConfFiles}) :
          files = {TrajPath} \cup fs
    /\ \E f, od, ss, pl \in BOOLEAN :
       \E cc \in Optional({"xyz"}) :
       \E inp \in Optional({InputPath}) :
       \E rmsd \in Optional({R(1)}) :
          raw = [BaseRaw EXCEPT !.force = f, !.od_given = od, !.silhouette_score = ss,
                                !.clusters_configurations = cc, !.input = inp,
                                !.min_rmsd = rmsd, !.plot = pl]

\* the cluster labels and the distance matrix
InitMedoid ==
    /\ Start
    /\ has_qml = FALSE
    /\ files = {TrajPath}
    /\ raw = BaseRaw
    /\ traj = SingleAtomTraj(NFrames)
    /\ clusters \in Labelings(NFrames)
    /\ distmat \in [1..((NFrames * (NFrames - 1)) \div 2) -> 0..MaxDist]

\* the atoms of the frames the alignment is explored on: hydrogen last, hydrogen first
AtomLayouts == {<<Carbon, Carbon, Hydrogen>>, <<Hydrogen, Carbon, Carbon>>}

Lattice == {<<x, y>> : x \in 0..MaxCoord, y \in 0..MaxCoord}

\* the geometry of the frames and the alignment options
InitAlign ==
    /\ Start
    /\ has_qml = FALSE
    /\ files = {TrajPath}
    /\ clusters = <<1, 1>>
    /\ distmat = <<1>>
    /\ \E atoms \in AtomLayouts :
       \E pts \in [1..Len(atoms) -> Lattice] :
          traj = << MkFrame(atoms, pts, 0),
                    MkFrame(atoms, << <<0, 0>>, <<1, 0>>, <<0, 1>> >>, 1) >>
    /\ \E re, noh, rs, fk \in BOOLEAN :
       \E eex \in {<< >>, <<3, 1>>} :
       \E ns \in Optional(1..MaxSolute) :
       \E ws \in Optional({Half, R(1)}) :
          raw = [BaseRaw EXCEPT !.reorder = re, !.no_hydrogen = noh,
                                !.reorder_solvent_only = rs, !.final_kabsch = fk,
                                !.reorder_exclusions = eex,
                                !.natoms_solute = ns, !.weight_solute = ws]

Init == InitCfg \/ InitFiles \/ InitMedoid \/ InitAlign

Spec == Init /\ [][Next]_vars

SpecCfg == InitCfg /\ [][Next]_vars

SpecFiles == InitFiles /\ [][Next]_vars

SpecMedoid == InitMedoid /\ [][Next]_vars

SpecAlign == InitAlign /\ [][Next]_vars

----------------------------------------------------------------------------
(* Properties of the medoid choice *)

\* the frames labelled c
Members(c) == {i \in 0..(Len(clusters) - 1) : clusters[i + 1] = c}

\* the pairs i < j of frames that come before the pair a < b in the condensed order
PairsBefore(a, b) ==
    {pr \in (0..(Len(clusters) - 1)) \X (0..(Len(clusters) - 1)) :
        pr[1] < pr[2] /\ (pr[1] < a \/ (pr[1] = a /\ pr[2] < b))}

\* distance(x, y) as the condensed matrix holds it
Distance(x, y) ==
    IF x = y THEN 0
    ELSE IF x < y THEN distmat[Cardinality(PairsBefore(x, y)) + 1]
    ELSE distmat[Cardinality(PairsBefore(y, x)) + 1]

RECURSIVE SumOver(_, _)
SumOver(S, x) ==
    IF S = {} THEN 0
    ELSE LET y == CHOOSE y \in S : TRUE IN Distance(x, y) + SumOver(S \ {y}, x)

\* the sum of the distances from x to the members of c
TotalDistance(x, c) == SumOver(Members(c), x)

\* x is the member of c of least total distance, the lowest index among equals
IsMedoidOf(x, c) ==
    /\ x \in Members(c)
    /\ \A y \in Members(c) :
          /\ TotalDistance(x, c) <= TotalDistance(y, c)
          /\ (y < x => TotalDistance(y, c) > TotalDistance(x, c))

\* C1: for every cluster id, the medoid save_clusters_config chooses is a
\* member of the cluster that minimizes the sum of the condensed-matrix
\* distances to the members, the lowest frame index among the members that
\* tie; so the only member of a singleton cluster is its medoid.
C1_MedoidMinimizesTotalDistance ==
    pc \in {"medoid", "members"} => IsMedoidOf(medoid, cnum)

\* C1 witness: a medoid that is not the first member of its cluster and ties
\* with a later member.
C1_Witness ==
    /\ pc = "members"
    /\ \E y \in Members(cnum) : y < medoid
    /\ \E y \in Members(cnum) :
          y > medoid /\ TotalDistance(y, cnum) = TotalDistance(medoid, cnum)

\* the records written to the file of cluster c
Written(c) == IF ConfPath(c) \in DOMAIN out THEN out[ConfPath(c)] ELSE << >>

\* C2: in the output of each cluster the first record is the medoid, written
\* once; every record after it is a member that is not the medoid, and these
\* follow in increasing frame index.
C2_MedoidFirstThenMembersInOrder ==
    \A c \in 1..MaxLabel(clusters) :
        LET recs == Written(c)
        IN /\ (pc = "members" /\ c = cnum => Len(recs) >= 1)
           /\ ((c < cnum \/ pc = "done") /\ err = "" => Len(recs) = Cardinality(Members(c)))
           /\ (Len(recs) >= 1 => IsMedoidOf(recs[1].idx, c))
           /\ \A k \in 2..Len(recs) :
                 /\ recs[k].idx \in Members(c)
                 /\ ~IsMedoidOf(recs[k].idx, c)
                 /\ (k > 2 => recs[k - 1].idx < recs[k].idx)

\* C2 witness: a finished file of three records whose medoid is not the
\* first frame of the cluster.
C2_Witness ==
    /\ pc = "done"
    /\ \E c \in 1..MaxLabel(clusters) :
          /\ Len(Written(c)) = 3
          /\ Written(c)[1].idx > Written(c)[2].idx
          /\ Written(c)[2].idx < Written(c)[3].idx

----------------------------------------------------------------------------
(* Properties of the records written *)

\* the 1-based places of the atoms of f the run selects
SelectedAtoms(f, s) == {i \in 1..Len(f.atoms) : ~s.noh \/ f.atoms[i] # Hydrogen}

\* the atoms the centering is on: the selected atoms of the solute when a
\* solute partition is defined, all the selected atoms otherwise
CenteringSubset(f, s) ==
    IF IntTruthy(s.nsatoms)
    THEN {i \in SelectedAtoms(f, s) : i <= Get(s.nsatoms)}
    ELSE SelectedAtoms(f, s)

RECURSIVE SumPoints(_, _)
SumPoints(X, S) ==
    IF S = {} THEN <<0, 0>>
    ELSE LET i == CHOOSE i \in S : TRUE IN PAdd(X[i], SumPoints(X, S \ {i}))

\* rec holds the atoms of f, every one, moved by one translation that puts
\* the centroid of the centering subset at the origin
TranslatedOnly(rec, f, s) ==
    /\ rec.atoms = f.atoms
    /\ rec.natoms = Len(f.atoms)
    /\ Len(rec.coords) = Len(f.coords)
    /\ ~AnyNaN(rec.coords)
    /\ \A i, j \in 1..Len(f.coords) :
          PSub(rec.coords[i], rec.coords[j]) = PSub(f.coords[i], f.coords[j])
    /\ SumPoints(rec.coords, CenteringSubset(f, s)) = <<0, 0>>

\* C3: the medoid's record is the medoid frame with all its atoms, translated
\* and not rotated, the centroid of its centering subset (the selected atoms
\* of the solute when a solute partition is defined, all the selected atoms
\* otherwise) at the origin.
C3_MedoidTranslatedOnly ==
    pc = "members" =>
        TranslatedOnly(out[Get(outfile)][1], Frame(medoid), SaveArgs(Get(opts)))

\* the records of a member are the same with final_kabsch set and unset
SameWithAndWithoutFinalKabsch ==
    LET s  == SaveArgs(Get(opts))
        t  == [s EXCEPT !.final_kabsch = ~s.final_kabsch]
        rs == Align(Frame(last.idx), med, s, last.prr1, last.prr2)
        rt == Align(Frame(last.idx), med, t, last.prr1, last.prr2)
    IN rs.err = rt.err /\ rs.pall = rt.pall

\* C10: unless both a solute atom count and reordering are in use, a member
\* is written with the same coordinates whether final_kabsch is set or not.
C10_FinalKabschOnlyWithSoluteAndReorder ==
    (last.idx >= 0 /\ ~(IntTruthy(SaveArgs(Get(opts)).nsatoms) /\ ~IsNone(SaveArgs(Get(opts)).reorder)))
        => SameWithAndWithoutFinalKabsch

----------------------------------------------------------------------------
(* Properties of the output paths *)

\* the paths the run writes its results to
OutputPaths(o) ==
    (IF o.input_distmat THEN {} ELSE {o.distmat_name})
        \cup {o.out_clust_name}
        \cup (IF o.save_confs THEN {ConfPath(c) : c \in 1..MaxLabel(clusters)} ELSE {})

\* C4: when an output path of the run (the distance matrix unless it is
\* read, the cluster file, a per-cluster configuration file) exists and the
\* overwrite flag is not set, the run fails while parsing its options: no
\* run gets past configure_runtime with such a path, and none fails later
\* when save_clusters_config opens its files.
C4_OutputCollisionsFailAtParsing ==
    /\ (pc = "main" /\ ~Get(opts).overwrite => OutputPaths(Get(opts)) \cap files = {})
    /\ err # "IOError"

----------------------------------------------------------------------------
(* Properties of configure_runtime *)

\* configure_runtime has ended with parser.error
Rejected == pc = "exit" /\ err = "SystemExit" /\ IsNone(opts)

\* configure_runtime has returned a ClustOptions
Accepted == pc # "start" /\ ~IsNone(opts)

\* the reorder function of the rmsd package each algorithm name stands for
StrategyNamed(name) ==
    CASE name = "hungarian"         -> "reorder_hungarian"
      [] name = "inertia-hungarian" -> "reorder_inertia_hungarian"
      [] name = "brute"             -> "reorder_brute"
      [] name = "distance"          -> "reorder_distance"
      [] name = "qml"               -> "reorder_similarity"

\* C5: for each algorithm name configure_runtime accepts, the ClustOptions
\* returned with -e holds the reorder function of that name, never None; the
\* ClustOptions returned without -e holds None whatever the name.
C5_ReorderAlgIsTheNamedStrategy ==
    Accepted =>
        IF raw.reorder
        THEN Get(opts).reorder_alg = Some(StrategyNamed(Get(opts).reorder_alg_name))
        ELSE IsNone(Get(opts).reorder_alg)

\* C6: a command line with -eex and --no-hydrogen is rejected with a parser
\* error, whatever else it holds.
C6_ExclusionsWithNoHydrogenRejected ==
    (pc # "start" /\ Len(raw.reorder_exclusions) > 0 /\ raw.no_hydrogen) => Rejected

\* C6 witness: a rejected line with -eex and --no-hydrogen, without -e, that
\* configure_runtime accepts once --no-hydrogen is taken off.
C6_Witness ==
    /\ Rejected
    /\ Len(raw.reorder_exclusions) > 0 /\ raw.no_hydrogen /\ ~raw.reorder
    /\ ConfigureOutcome([raw EXCEPT !.no_hydrogen = FALSE], has_qml, {TrajPath}) = ""

\* 0 <= w <= 1 for the float w
InUnitInterval(w) == w[2] > 0 /\ 0 <= w[1] /\ w[1] <= w[2]

\* C7: every -ws value outside [0, 1] is rejected with a parser error, and
\* the weight_solute of a returned ClustOptions is absent or within [0, 1].
C7_WeightWithinUnitInterval ==
    /\ (pc # "start" /\ ~IsNone(raw.weight_solute)
           /\ ~InUnitInterval(Get(raw.weight_solute))) => Rejected
    /\ Accepted => \/ IsNone(Get(opts).weight_solute)
                   \/ InUnitInterval(Get(Get(opts).weight_solute))

\* C8: a command line with -rs, or with -ws and any value, and without -ns is
\* rejected with a parser error.
C8_SolventOnlyAndWeightNeedSolute ==
    (/\ pc # "start"
     /\ IsNone(raw.natoms_solute)
     /\ raw.reorder_solvent_only \/ ~IsNone(raw.weight_solute)) => Rejected

\* a line whose only options are --reorder-alg qml and perhaps -e and --final-kabsch
OnlyQmlAsked ==
    raw = [BaseRaw EXCEPT !.reorder_alg = Some("qml"), !.reorder = raw.reorder,
                          !.final_kabsch = raw.final_kabsch]

\* C9: --reorder-alg qml is rejected with a parser error when the optional
\* capability is not there, with or without -e; when the capability is
\* there the name is accepted.
C9_QmlNeedsTheCapability ==
    (pc # "start" /\ raw.reorder_alg = Some("qml")) =>
        /\ ~has_qml => Rejected
        /\ (has_qml /\ OnlyQmlAsked) => (Accepted /\ Get(opts).reorder_alg_name = "qml")

\* C9 witness: a line asking for qml and nothing else, without -e, rejected
\* for the capability that is not there.
C9_Witness == Rejected /\ OnlyQmlAsked /\ ~raw.reorder /\ ~has_qml

\* C11: a command line with both -ss and -rmsd, or with neither, is rejected,
\* and a returned ClustOptions has silhouette_score true and no min_rmsd, or
\* silhouette_score false and a min_rmsd.
C11_ExactlyOneCriterion ==
    /\ (pc # "start" /\ raw.silhouette_score = ~IsNone(raw.min_rmsd)) => Rejected
    /\ Accepted => \/ (Get(opts).silhouette_score /\ IsNone(Get(opts).min_rmsd))
                   \/ (~Get(opts).silhouette_score /\ ~IsNone(Get(opts).min_rmsd))

\* C11 witness: a line with neither -ss nor -rmsd is rejected, and the same
\* line with -rmsd is accepted.
C11_Witness ==
    /\ Rejected
    /\ ~raw.silhouette_score /\ IsNone(raw.min_rmsd)
    /\ ConfigureOutcome([raw EXCEPT !.min_rmsd = Some(R(1))], has_qml, files) = ""

----------------------------------------------------------------------------
(* Properties of the summary *)

\* str(clust_opt) has been called: the run is past its outputs
StrCalled ==
    /\ pc \in {"end", "exit"}
    /\ ~IsNone(opts)
    /\ Get(opts).save_confs => (cnum > MaxLabel(clusters) /\ IsNone(outfile))

\* the values the summary gives under the label
Reported(label) ==
    IF IsNone(summary) THEN {}
    ELSE {Get(summary)[i][2] : i \in {j \in 1..Len(Get(summary)) :
                                         /\ Len(Get(summary)[j]) = 2
                                         /\ Get(summary)[j][1] = label}}

\* the summary gives v as the cutoff found by silhouette, and no min_rmsd
ReportsSilhouetteCut(v) ==
    /\ Reported("RMSD criterion found by silhouette") = {v}
    /\ Reported("RMSD criterion") = {}

\* the summary gives the fixed min_rmsd, and no cutoff found by silhouette
ReportsMinRmsd ==
    /\ Reported("RMSD criterion") = {Get(opts).min_rmsd}
    /\ Reported("RMSD criterion found by silhouette") = {}

\* no summary, the exception e instead
RaisedInstead(e) == IsNone(summary) /\ pc = "exit" /\ err = e

----------------------------------------------------------------------------
(* Properties of the reorder steps *)

\* the atoms of an array of coordinates and its array of types
Atoms(P, Pa) == [i \in 1..Len(P) |-> <<P[i], Pa[i]>>]

\* how many places of X hold x
Count(X, x) == Cardinality({i \in 1..Len(X) : X[i] = x})

\* after holds the atoms of before, those at the 0-based places ex where
\* they were
ExclusionsKept(before, after, ex) ==
    /\ Len(after) = Len(before)
    /\ \A i \in 1..Len(before) : Count(after, before[i]) = Count(before, before[i])
    /\ \A i \in 1..Len(before) : (i - 1) \in ex => after[i] = before[i]

\* the solute reorder step of the last member has run to its end
SoluteStepDone ==
    /\ last.idx >= 0
    /\ SoluteStep(SaveArgs(Get(opts)))
    /\ SoluteSpliced(AlignStart(Frame(last.idx), med, SaveArgs(Get(opts))), med,
                     SaveArgs(Get(opts)), last.prr1).err = ""

\* the second reorder step of the last member has run to its end
SolventStepDone ==
    /\ last.idx >= 0
    /\ ~IsNone(SaveArgs(Get(opts)).reorder)
    /\ SolventReorderError(SoluteReorder(AlignStart(Frame(last.idx), med, SaveArgs(Get(opts))),
                                         med, SaveArgs(Get(opts)), last.prr1),
                           med, SaveArgs(Get(opts))) = ""

\* C13: whatever the order of the exclusion list, after the solute reorder
\* step and after the second reorder step every excluded place holds the atom
\* it held before the step, and the array holds the same atoms as before.
C13_ExclusionsHonoured ==
    LET s == SaveArgs(Get(opts))
        a == AlignStart(Frame(last.idx), med, s)
        c == SoluteSpliced(a, med, s, last.prr1)
        b == SoluteReorder(a, med, s, last.prr1)
    IN /\ SoluteStepDone =>
             ExclusionsKept(Atoms(a.P, a.Pa), Atoms(c.P, c.Pa),
                            Range(s.reorderexcl) \cap (0..(Get(med.natoms) - 1)))
       /\ SolventStepDone =>
             ExclusionsKept(b.P, SolventReorder(b, med, s, last.prr2),
                            Range(Exclusions(med, s)))

----------------------------------------------------------------------------
(* Properties of the weights *)

\* Pr of the last member, the array the weights are built for
LastPr ==
    LET s == SaveArgs(Get(opts))
        b == SoluteReorder(AlignStart(Frame(last.idx), med, s), med, s, last.prr1)
    IN SolventReorder(b, med, s, last.prr2)

\* the weighted final fit of the last member is reached, with a weight in
\* [0, 1] and 1 <= natoms <= N
WeightedFitApplied ==
    /\ last.idx >= 0
    /\ WeightedFit(SaveArgs(Get(opts)))
    /\ SolventStepDone \/ (IsNone(SaveArgs(Get(opts)).reorder) /\ Len(LastPr) > 0)
    /\ InUnitInterval(Get(SaveArgs(Get(opts)).weight_solute))
    /\ ~IsNone(med.natoms)
    /\ 1 <= Get(med.natoms) /\ Get(med.natoms) <= Len(LastPr)

\* C14: when the weighted final fit is applied, building W does not fail, W
\* has one entry for each selected atom, none negative, they sum to 1, each
\* of the natoms solute atoms has weight_solute / natoms and each of the
\* N - natoms others has (1 - weight_solute) / (N - natoms).
C14_WeightsSumToOne ==
    WeightedFitApplied =>
        LET n      == Len(LastPr)
            natoms == Get(med.natoms)
            ws     == Get(SaveArgs(Get(opts)).weight_solute)
            W      == Weights(n, natoms, ws)
            D      == WeightDenominator(n, natoms, ws)
        IN /\ WeightsError(n, med.natoms) = ""
           /\ D > 0
           /\ Len(W) = n
           /\ \A i \in 1..n : W[i] >= 0
           /\ SumSeq(W) = D
           /\ \A i \in 1..n :
                 IF i <= natoms THEN W[i] * natoms * ws[2] = ws[1] * D
                 ELSE W[i] * (n - natoms) * ws[2] = (ws[2] - ws[1]) * D

----------------------------------------------------------------------------
(* Properties of the outputs as a whole *)

\* the cluster ids of the label array
ClusterIds == {clusters[i] : i \in 1..Len(clusters)}

\* the frames the records of the file of cluster c were made from
FramesWritten(c) == {Written(c)[k].idx : k \in 1..Len(Written(c))}

\* save_clusters_config has returned
Saved == pc \in {"done", "end"} /\ ~IsNone(opts) /\ Get(opts).save_confs

\* C15: one output is opened for each cluster id, each is closed before the
\* next is opened, and when save_clusters_config returns the output of
\* cluster c holds the frames labelled c, each once: every frame is in one
\* output, none is left out and none is written twice.
C15_EveryFrameWrittenOnce ==
    /\ pc = "open" => IsNone(outfile)
    /\ pc \in {"medoid", "members"} => outfile = Some(ConfPath(cnum))
    /\ \A c \in ClusterIds :
          /\ Len(Written(c)) = Cardinality(FramesWritten(c))
          /\ FramesWritten(c) \subseteq Members(c)
    /\ Saved =>
          /\ IsNone(outfile)
          /\ DOMAIN out = {ConfPath(c) : c \in ClusterIds}
          /\ \A c \in ClusterIds : FramesWritten(c) = Members(c)
          /\ \A i \in 0..(Len(traj) - 1) :
                Cardinality({c \in ClusterIds : i \in FramesWritten(c)}) = 1

\* C15 witness: the run has returned with two outputs, one of them with two frames
C15_Witness ==
    /\ Saved
    /\ Cardinality(ClusterIds) = 2
    /\ \E c \in ClusterIds : Len(Written(c)) = 2
    /\ \E c \in ClusterIds : Len(Written(c)) = 1

\* the square of the distance between two points
Dist2(p, q) == (p[1] - q[1]) * (p[1] - q[1]) + (p[2] - q[2]) * (p[2] - q[2])

\* rec lists the atoms of f, all of them, in the order and with the types of
\* f, at coordinates that keep every distance between two atoms
ListsAllAtoms(rec, f) ==
    /\ rec.natoms = Len(f.atoms)
    /\ rec.atoms = f.atoms
    /\ Len(rec.coords) = Len(f.coords)
    /\ ~AnyNaN(rec.coords) =>
          \A i, j \in 1..Len(f.coords) :
              Dist2(rec.coords[i], rec.coords[j]) = Dist2(f.coords[i], f.coords[j])

\* C16: every record written, of a medoid or of a member, lists all the atoms
\* of its frame in the frame's order and with the frame's types, whatever
\* noh, reorder, reorder_solvent_only, the exclusions and final_kabsch are:
\* the selection and the reordering change only the rigid motion applied.
C16_RecordsListAllAtoms ==
    \A p \in DOMAIN out :
        \A k \in 1..Len(out[p]) : ListsAllAtoms(out[p][k], Frame(out[p][k].idx))

\* C16 witness: a member is written after a run without hydrogens in which
\* the reorder strategy exchanged two atoms
C16_Witness ==
    /\ last.idx >= 0
    /\ err = ""
    /\ Get(opts).no_hydrogen
    /\ ~IsNone(Get(opts).reorder_alg)
    /\ last.prr2 = <<2, 1>>
    /\ \E p \in DOMAIN out : Len(out[p]) = 2 /\ out[p][2].idx = last.idx

====
